---- MODULE Spec2Model ----
(***************************************************************************)
(* Answerability benchmark engine of SEO_tool_Pulse_Hack.                  *)
(*                                                                         *)
(* Two implementations of the engine are modelled side by side:            *)
(*   "per_question" : src/ai_tool_anayze/backend/benchmark.py              *)
(*   "single_call"  : src/backend/benchmark.py                             *)
(*                                                                         *)
(* Strings are modelled as sequences of tokens.  A URL is a sequence whose *)
(* first token is the origin (scheme and host) and whose other tokens are  *)
(* "/" and path segment names; a text is a sequence of whitespace          *)
(* separated words.                                                        *)
(***************************************************************************)
EXTENDS Integers, Sequences, FiniteSets, TLC

VARIABLES
    engine,          \* which implementation runs
    caller,          \* "direct": crawl_site called on its own; "benchmark"
    pc,              \* position of the running call
    start_url,       \* crawl_site: the seed
    max_pages,       \* crawl_site: the page cap
    queue,           \* crawl_site: the work queue
    seen,            \* crawl_site: the visited set
    pages,           \* crawl_site: the collected PageContent list
    fetchLog,        \* history: every URL handed to requests.get, in order
    enqLog,          \* history: every link appended to the queue by the loop
    deqLog,          \* history: every URL popped from the queue, in order
    lastIter,        \* history: what the last loop iteration did
    credential,      \* whether OPENAI_API_KEY is set in the environment
    queries,         \* run_answerability_benchmark: the queries argument
    chunks,          \* per-question engine: the chunk index
    results,         \* the query results built so far
    answerable,      \* counter answerable (single-call: answered_count)
    citation_ok,     \* counter citation_ok
    completeness_scores, \* per-question engine: the completeness of each answer
    missing_topics,  \* the questions collected as not answered
    svcCalls,        \* history: completion-service requests, one entry per
                     \* question started (single-call: one entry per run)
    outcome,         \* "running", "report", or the exception that escaped
    report,          \* <<>> until the call returns, then <<the report>>
    call,            \* a helper called on its own: its arguments and result
    audit_sessions,  \* main.py: the session store; session ids are 1, 2, ...
    audit_pc,        \* main.py: where each session's run_full_audit task is
    bench_posts,     \* history: POST /api/benchmark requests per session
    bench_inflight,  \* main.py: run_benchmark_task tasks not yet finished
    last_response    \* history: the last GET /api/benchmark/{id} response

crawlVars == <<start_url, max_pages, queue, seen, pages, fetchLog, enqLog, deqLog,
               lastIter>>

benchVars == <<credential, queries, chunks, results, answerable, citation_ok,
               completeness_scores, missing_topics, svcCalls, outcome, report>>

fnVars == <<call>>

apiVars == <<audit_sessions, audit_pc, bench_posts, bench_inflight, last_response>>

vars == <<engine, caller, pc, crawlVars, benchVars, fnVars, apiVars>>

----------------------------------------------------------------------------
(* Bounds of the model *)

\* crawl_site called directly: max_pages ranges over 0..MaxPagesBound
MaxPagesBound == 2
\* anchors (with href) on one fetched page
MaxAnchors == 1
\* how many of the priority paths (in source order) the model keeps
NumPriority == 3
\* pages of the site that answer a fetch with a status below 400
MaxSitePages == 2
\* custom questions in one call
MaxQueries == 3
\* elements of the JSON array the single-call completion may return
MaxItems == 2
\* _extract_links called on its own: anchors of the page, and the largest cap
MaxHtmlAnchors == 3
MaxCap == 3
\* _chunk_text called on its own: words of the text, and the largest chunk_size
MaxWords == 7
MaxChunkSize == 4
\* POST /api/audit requests the server takes
MaxSessions == 2
\* POST /api/benchmark requests the server takes for one session
MaxBenchPosts == 2
\* _select_top_chunks called on its own: chunks of the index, and the largest top_k
MaxChunks == 3
MaxTopK == 3
\* _extract_citations called on its own: sources of the context
MaxSources == 3

----------------------------------------------------------------------------
(* Sequences *)

Range(s) == {s[i] : i \in 1..Len(s)}

SeqsUpTo(S, n) == UNION {[1..k -> S] : k \in 0..n}

Min(a, b) == IF a < b THEN a ELSE b

Max(a, b) == IF a > b THEN a ELSE b

----------------------------------------------------------------------------
(* URLs *)

Engines == {"per_question", "single_call"}

\* urlparse(u).netloc: the host between "//" and the path; the scheme is not
\* part of it
NetlocOfOrigin(o) ==
    CASE o = "http://a.com"  -> "a.com"
      [] o = "https://a.com" -> "a.com"
      [] o = "http://b.com"  -> "b.com"
      [] OTHER               -> ""

IsOrigin(t) == t \in {"http://a.com", "https://a.com", "http://b.com"}

Netloc(u) == IF Len(u) > 0 /\ IsOrigin(u[1]) THEN NetlocOfOrigin(u[1]) ELSE ""

\* mutant: every link counts as same-host
_is_same_host_Any(root, url) == TRUE

_is_same_host(root, url) == Netloc(root) = Netloc(url)

\* str.rstrip('/'): drop every trailing "/" (the origin token ends in a host
\* character and is never touched)
RECURSIVE Rstrip(_)
Rstrip(u) ==
    IF Len(u) > 0 /\ u[Len(u)] = "/" THEN Rstrip(SubSeq(u, 1, Len(u) - 1)) ELSE u

\* urldefrag(u)[0]: cut at the first "#"
RECURSIVE Urldefrag(_)
Urldefrag(u) ==
    IF u = <<>> THEN <<>>
    ELSE IF Head(u) = "#" THEN <<>>
    ELSE <<Head(u)>> \o Urldefrag(Tail(u))

\* urljoin(base, href) for the href shapes of the model: an absolute URL
\* replaces the base; a root-relative path keeps the base's origin; an empty or
\* fragment-only href keeps the whole base (without the base's own fragment)
Urljoin(base, href) ==
    IF href = <<>> THEN base
    ELSE IF IsOrigin(href[1]) THEN href
    ELSE IF href[1] = "/" THEN <<base[1]>> \o href
    ELSE IF href[1] = "#" THEN Urldefrag(base) \o href
    ELSE base

\* the seeds a caller may pass: a bare origin, with a trailing slash, with a
\* path
Seeds ==
    { <<"http://a.com">>,
      <<"http://a.com", "/">>,
      <<"http://a.com", "/", "blog">> }

\* the href attributes a fetched page may carry
Hrefs ==
    { <<"/", "contact", "#", "top">>,
      <<"https://a.com", "/", "contact">>,
      <<"http://b.com", "/">> }

\* the page texts (normalized, whitespace separated words) a fetch may return
Texts == { <<>>, <<"pricing">>, <<"Pricing:", "pricing">> }

----------------------------------------------------------------------------
(* Texts: _tokenize, upper() *)

\* re.findall(r"[a-z0-9]+", word.lower()) for the words of the model; a word
\* not listed is already one lower-case alphanumeric token
TokensOfWord(w) ==
    CASE w = "Pricing:"   -> <<"pricing">>
      [] w = "pricing?"   -> <<"pricing">>
      [] w = "Is"         -> <<"is">>
      [] w = "found?"     -> <<"found">>
      [] w = "Not"        -> <<"not">>
      [] w = "NOT"        -> <<"not">>
      [] w = "Found"      -> <<"found">>
      [] w = "FOUND"      -> <<"found">>
      [] w = "What"       -> <<"what">>
      [] w = "Where"      -> <<"where">>
      [] w = "Do"         -> <<"do">>
      [] w = "Could"      -> <<"could">>
      [] w = "Error"      -> <<"error">>
      [] w = "offer?"     -> <<"offer">>
      [] w = "located?"   -> <<"located">>
      [] w = "hours?"     -> <<"hours">>
      [] w = "guarantee?" -> <<"guarantee">>
      [] w = "money-back" -> <<"money", "back">>
      [] w = "[0]"        -> <<"0">>
      [] w = "[1]"        -> <<"1">>
      [] w = "[2]"        -> <<"2">>
      [] w = "[3]"        -> <<"3">>
      [] w = "[4]"        -> <<"4">>
      [] w = "??"         -> <<>>
      [] OTHER            -> <<w>>

RECURSIVE _tokenize(_)
_tokenize(text) ==
    IF text = <<>> THEN <<>>
    ELSE TokensOfWord(Head(text)) \o _tokenize(Tail(text))

\* word.upper() ends with "NOT" / starts with "FOUND"
UpperEndsWithNOT(w) == w \in {"not", "Not", "NOT", "cannot"}

UpperStartsWithFOUND(w) == w \in {"found", "Found", "FOUND", "found?", "foundation"}

\* mutant: the marker is looked for in the text as written, not in its upper case
ContainsNotFound_ExactCase(text) ==
    \E i \in 1..(Len(text) - 1) : text[i] = "NOT" /\ text[i + 1] = "FOUND"

\* "NOT FOUND" in text.upper(): the words are joined by single spaces, so the
\* marker spans two neighbouring words
ContainsNotFound(text) ==
    \E i \in 1..(Len(text) - 1) :
        UpperEndsWithNOT(text[i]) /\ UpperStartsWithFOUND(text[i + 1])

\* re.findall(r"\[(\d+)\]", word): the marker number of a word, -1 for none
MarkerOf(w) ==
    CASE w = "[0]" -> 0
      [] w = "[1]" -> 1
      [] w = "[2]" -> 2
      [] w = "[3]" -> 3
      [] w = "[4]" -> 4
      [] OTHER     -> -1

----------------------------------------------------------------------------
(* Fractions: Python floats of the form n / d, kept exact *)

Frac(n, d) == [num |-> n, den |-> d]

FracLess(a, b) == a.num * b.den < b.num * a.den

FracAdd(a, b) == Frac(a.num * b.den + b.num * a.den, a.den * b.den)

\* mutant: the quotient is cut after two decimals instead of rounded
Round2_Truncate(n, d) == (100 * n) \div d

\* round(n / d, 2) in hundredths; an exact tie goes to the even hundredth
Round2(n, d) ==
    LET q == (100 * n) \div d
        r == (100 * n) % d
    IN  IF 2 * r < d THEN q
        ELSE IF 2 * r > d THEN q + 1
        ELSE IF q % 2 = 0 THEN q ELSE q + 1

----------------------------------------------------------------------------
(* _chunk_text *)

\* mutant: the next window starts where the last one ended
RECURSIVE ChunkLoop_NoOverlap(_, _, _, _, _)
ChunkLoop_NoOverlap(words, chunk_size, overlap, start, acc) ==
    IF ~(start < Len(words)) THEN acc
    ELSE LET end     == Min(Len(words), start + chunk_size)
             chunk   == SubSeq(words, start + 1, end)
             chunks2 == Append(acc, chunk)
         IN  IF end >= Len(words) THEN chunks2
             ELSE ChunkLoop_NoOverlap(words, chunk_size, overlap, end, chunks2)

RECURSIVE ChunkLoop(_, _, _, _, _)
ChunkLoop(words, chunk_size, overlap, start, acc) ==
    IF ~(start < Len(words)) THEN acc
    ELSE LET end     == Min(Len(words), start + chunk_size)
             chunk   == SubSeq(words, start + 1, end)
             chunks2 == Append(acc, chunk)
         IN  IF end >= Len(words) THEN chunks2
             ELSE ChunkLoop(words, chunk_size, overlap, Max(0, end - overlap), chunks2)

\* mutant: a text that is not empty is returned as one chunk
_chunk_text_Whole(text, chunk_size, overlap) ==
    IF text = <<>> THEN <<>> ELSE <<text>>

\* "if not text: return []"; a text of blanks only splits into no word
_chunk_text(text, chunk_size, overlap) ==
    IF text = <<>> THEN <<>>
    ELSE ChunkLoop(text, chunk_size, overlap, 0, <<>>)

DefaultChunkSize == 800

DefaultOverlap == 120

\* run_answerability_benchmark: "for page in pages: for chunk in _chunk_text(...)"
RECURSIVE BuildChunks(_)
BuildChunks(ps) ==
    IF ps = <<>> THEN <<>>
    ELSE LET cs == _chunk_text(Head(ps).text, DefaultChunkSize, DefaultOverlap)
         IN  [i \in 1..Len(cs) |-> [url |-> Head(ps).url, chunk |-> cs[i]]]
             \o BuildChunks(Tail(ps))

----------------------------------------------------------------------------
(* _score_overlap, _select_top_chunks *)

\* mutant: a token of the chunk counts once, however often it occurs
CountToken_Presence(t, tokens) ==
    IF \E i \in 1..Len(tokens) : tokens[i] = t THEN 1 ELSE 0

\* Counter(c_tokens)[t]
RECURSIVE CountToken(_, _)
CountToken(t, tokens) ==
    IF tokens = <<>> THEN 0
    ELSE (IF Head(tokens) = t THEN 1 ELSE 0) + CountToken(t, Tail(tokens))

RECURSIVE SumCounts(_, _)
SumCounts(q_tokens, c_tokens) ==
    IF q_tokens = <<>> THEN 0
    ELSE CountToken(Head(q_tokens), c_tokens) + SumCounts(Tail(q_tokens), c_tokens)

_score_overlap(query, chunk) ==
    LET q_tokens == _tokenize(query)
    IN  IF q_tokens = <<>> THEN Frac(0, 1)
        ELSE Frac(SumCounts(q_tokens, _tokenize(chunk)), Max(1, Len(q_tokens)))

\* list.sort(key=score, reverse=True) is stable: an entry goes after every
\* entry whose score is not lower
\* mutant: an entry goes before the entries of equal score
RECURSIVE InsertByScore_Unstable(_, _)
InsertByScore_Unstable(sorted, x) ==
    IF sorted = <<>> THEN <<x>>
    ELSE IF ~FracLess(x.score, Head(sorted).score) THEN <<x>> \o sorted
    ELSE <<Head(sorted)>> \o InsertByScore_Unstable(Tail(sorted), x)

RECURSIVE InsertByScore(_, _)
InsertByScore(sorted, x) ==
    IF sorted = <<>> THEN <<x>>
    ELSE IF FracLess(Head(sorted).score, x.score) THEN <<x>> \o sorted
    ELSE <<Head(sorted)>> \o InsertByScore(Tail(sorted), x)

RECURSIVE SortByScore(_, _)
SortByScore(scored, acc) ==
    IF scored = <<>> THEN acc
    ELSE SortByScore(Tail(scored), InsertByScore(acc, Head(scored)))

DefaultTopK == 3

_select_top_chunks(query, cs, top_k) ==
    LET scored == [i \in 1..Len(cs) |->
                     [url |-> cs[i].url, chunk |-> cs[i].chunk,
                      score |-> _score_overlap(query, cs[i].chunk)]]
        sorted == SortByScore(scored, <<>>)
    IN  SubSeq(sorted, 1, Min(top_k, Len(sorted)))

\* _build_context: the sources, one per selected chunk, in rank order
_build_context(top_chunks) == [i \in 1..Len(top_chunks) |-> top_chunks[i].url]

----------------------------------------------------------------------------
(* _extract_citations *)

\* the order of Python's string comparison on the URLs of the model
TokenRank(t) ==
    CASE t = "http://a.com"  -> 1
      [] t = "http://b.com"  -> 2
      [] t = "https://a.com" -> 3
      [] t = "/"             -> 4
      [] t = "about"         -> 5
      [] t = "about-us"      -> 6
      [] t = "blog"          -> 7
      [] t = "contact"       -> 8
      [] t = "contact-us"    -> 9
      [] OTHER               -> 10

RECURSIVE UrlLess(_, _)
UrlLess(a, b) ==
    IF b = <<>> THEN FALSE
    ELSE IF a = <<>> THEN TRUE
    ELSE IF Head(a) = Head(b) THEN UrlLess(Tail(a), Tail(b))
    ELSE TokenRank(Head(a)) < TokenRank(Head(b))

\* sorted(set_of_urls)
RECURSIVE SortedUrls(_)
SortedUrls(S) ==
    IF S = {} THEN <<>>
    ELSE LET least == CHOOSE u \in S : \A v \in S \ {u} : UrlLess(u, v)
         IN  <<least>> \o SortedUrls(S \ {least})

\* mutant: the marker number is used as a 0-based index
CitedSet_ZeroBased(answer, sources) ==
    { sources[MarkerOf(answer[i]) + 1] :
        i \in { j \in 1..Len(answer) :
                  LET idx == MarkerOf(answer[j])
                  IN  0 <= idx /\ idx < Len(sources) } }

CitedSet(answer, sources) ==
    { sources[MarkerOf(answer[i])] :
        i \in { j \in 1..Len(answer) :
                  LET idx == MarkerOf(answer[j]) - 1
                  IN  MarkerOf(answer[j]) >= 0 /\ 0 <= idx /\ idx < Len(sources) } }

_extract_citations(answer, sources) ==
    LET urls == SortedUrls(CitedSet(answer, sources))
    IN  [i \in 1..Len(urls) |-> [url |-> urls[i], section |-> "page"]]

----------------------------------------------------------------------------
(* _completeness_score *)

_completeness_score(query, answer) ==
    LET q_tokens == Range(_tokenize(query))
        a_tokens == Range(_tokenize(answer))
    IN  IF q_tokens = {} THEN Frac(0, 1)
        ELSE Frac(Cardinality(q_tokens \cap a_tokens), Cardinality(q_tokens))

----------------------------------------------------------------------------
(* _extract_links *)

RECURSIVE ExtractLinksLoop(_, _, _, _)
ExtractLinksLoop(base_url, anchors, max_links, links) ==
    IF anchors = <<>> THEN links
    ELSE LET joined == Urljoin(base_url, Head(anchors))
             clean  == Urldefrag(joined)
             links2 == Append(links, clean)
         IN  IF Len(links2) >= max_links THEN links2
             ELSE ExtractLinksLoop(base_url, Tail(anchors), max_links, links2)

_extract_links(base_url, anchors, max_links) ==
    ExtractLinksLoop(base_url, anchors, max_links, <<>>)

\* the default of crawl_site's max_links_per_page; no caller overrides it
DefaultMaxLinksPerPage == 50

----------------------------------------------------------------------------
(* crawl_site *)

\* src/backend/benchmark.py: priority_paths, in source order
PriorityPathsAll ==
    << <<>>, <<"/", "contact">>, <<"/", "contact-us">>, <<"/", "about">>,
       <<"/", "about-us">>, <<"/", "pricing">>, <<"/", "prices">>,
       <<"/", "plans">>, <<"/", "faq">>, <<"/", "support">>, <<"/", "help">>,
       <<"/", "locations">>, <<"/", "hours">>, <<"/", "refund">>,
       <<"/", "refund-policy">>, <<"/", "terms">>, <<"/", "services">> >>

priority_paths == SubSeq(PriorityPathsAll, 1, Min(NumPriority, Len(PriorityPathsAll)))

priority_urls(url) ==
    [i \in 1..Len(priority_paths) |-> Rstrip(url) \o priority_paths[i]]

InitialQueue(e, url) ==
    IF e = "per_question" THEN <<url>>
    ELSE priority_urls(url) \o <<url>>

\* mutant: the loop runs until the queue is empty, whatever was collected
LoopGuard_NoCap == queue /= <<>>

\* "while queue and len(pages) < max_pages"
LoopGuard == queue /= <<>> /\ Len(pages) < max_pages

\* mutant: the visited set is never consulted
AlreadySeen_NoCheck(url) == FALSE

\* "if url in seen: continue"
AlreadySeen(url) == url \in seen

\* "if _is_same_host(start_url, link) and link not in seen"
ShouldEnqueue(link, seenNow) == _is_same_host(start_url, link) /\ link \notin seenNow

\* mutant: a discovered link is put at the front of the queue
RECURSIVE EnqueueLinks_Front(_, _, _)
EnqueueLinks_Front(q, links, seenNow) ==
    IF links = <<>> THEN q
    ELSE EnqueueLinks_Front(IF ShouldEnqueue(Head(links), seenNow)
                              THEN <<Head(links)>> \o q ELSE q,
                            Tail(links), seenNow)

\* "for link in ...: if ...: queue.append(link)"
RECURSIVE EnqueueLinks(_, _, _)
EnqueueLinks(q, links, seenNow) ==
    IF links = <<>> THEN q
    ELSE EnqueueLinks(IF ShouldEnqueue(Head(links), seenNow)
                        THEN Append(q, Head(links)) ELSE q,
                      Tail(links), seenNow)

\* the links one iteration appends, in order
Enqueued(links, seenNow) == EnqueueLinks(<<>>, links, seenNow)

\* one iteration that pops an already visited URL
CrawlSkipSeen ==
    /\ pc = "crawl"
    /\ LoopGuard
    /\ AlreadySeen(Head(queue))
    /\ queue' = Tail(queue)
    /\ deqLog' = Append(deqLog, Head(queue))
    /\ lastIter' = [kind |-> "skip", url |-> Head(queue), links |-> <<>>]
    /\ UNCHANGED <<engine, caller, pc, start_url, max_pages, seen, pages, fetchLog, enqLog>>
    /\ UNCHANGED benchVars
    /\ UNCHANGED fnVars
    /\ UNCHANGED apiVars

\* mutant: a URL whose fetch failed is put back at the end of the queue
CrawlFetchFail_Retry ==
    /\ pc = "crawl"
    /\ LoopGuard
    /\ ~AlreadySeen(Head(queue))
    /\ \E how \in {"raise", "status"} :
         lastIter' = [kind |-> how, url |-> Head(queue), links |-> <<>>]
    /\ queue' = Append(Tail(queue), Head(queue))
    /\ seen' = seen \cup {Head(queue)}
    /\ deqLog' = Append(deqLog, Head(queue))
    /\ fetchLog' = Append(fetchLog, Head(queue))
    /\ UNCHANGED <<engine, caller, pc, start_url, max_pages, pages, enqLog>>
    /\ UNCHANGED benchVars
    /\ UNCHANGED fnVars
    /\ UNCHANGED apiVars

\* one iteration whose fetch raises requests.RequestException or answers with
\* a status >= 400
CrawlFetchFail ==
    /\ pc = "crawl"
    /\ LoopGuard
    /\ ~AlreadySeen(Head(queue))
    /\ \E how \in {"raise", "status"} :
         lastIter' = [kind |-> how, url |-> Head(queue), links |-> <<>>]
    /\ queue' = Tail(queue)
    /\ seen' = seen \cup {Head(queue)}
    /\ deqLog' = Append(deqLog, Head(queue))
    /\ fetchLog' = Append(fetchLog, Head(queue))
    /\ UNCHANGED <<engine, caller, pc, start_url, max_pages, pages, enqLog>>
    /\ UNCHANGED benchVars
    /\ UNCHANGED fnVars
    /\ UNCHANGED apiVars

\* one iteration whose fetch succeeds: the page is appended and its links are
\* enqueued
CrawlFetchOk ==
    /\ pc = "crawl"
    /\ LoopGuard
    /\ ~AlreadySeen(Head(queue))
    /\ Len(pages) < MaxSitePages
    /\ \E anchors \in SeqsUpTo(Hrefs, MaxAnchors), text \in Texts :
         LET url     == Head(queue)
             seenNow == seen \cup {url}
             links   == _extract_links(url, anchors, DefaultMaxLinksPerPage)
         IN  /\ seen' = seenNow
             /\ deqLog' = Append(deqLog, url)
             /\ fetchLog' = Append(fetchLog, url)
             /\ pages' = Append(pages, [url |-> url, text |-> text])
             /\ queue' = EnqueueLinks(Tail(queue), links, seenNow)
             /\ enqLog' = enqLog \o Enqueued(links, seenNow)
             /\ lastIter' = [kind |-> "ok", url |-> url, links |-> links]
    /\ UNCHANGED <<engine, caller, pc, start_url, max_pages>>
    /\ UNCHANGED benchVars
    /\ UNCHANGED fnVars
    /\ UNCHANGED apiVars

\* "return pages".  A direct call keeps the locals as the return statement
\* found them; inside run_answerability_benchmark only the returned pages
\* outlive the call
CrawlReturn ==
    /\ pc = "crawl"
    /\ ~LoopGuard
    /\ pc' = "crawl_returned"
    /\ IF caller = "direct"
         THEN UNCHANGED crawlVars
         ELSE /\ queue' = <<>>
              /\ seen' = {}
              /\ fetchLog' = <<>>
              /\ enqLog' = <<>>
              /\ deqLog' = <<>>
              /\ lastIter' = [kind |-> "none", url |-> <<>>, links |-> <<>>]
              /\ UNCHANGED <<start_url, max_pages, pages>>
    /\ UNCHANGED <<engine, caller, benchVars>>
    /\ UNCHANGED fnVars
    /\ UNCHANGED apiVars

CrawlStep == CrawlSkipSeen \/ CrawlFetchFail \/ CrawlFetchOk \/ CrawlReturn

\* the locals of crawl_site when the call starts
CrawlLocalsInit ==
    /\ queue = InitialQueue(engine, start_url)
    /\ seen = {}
    /\ pages = <<>>
    /\ fetchLog = <<>>
    /\ enqLog = <<>>
    /\ deqLog = <<>>
    /\ lastIter = [kind |-> "none", url |-> <<>>, links |-> <<>>]

\* the benchmark's locals before its first statement after the crawl
BenchLocalsInit ==
    /\ chunks = <<>>
    /\ results = <<>>
    /\ answerable = 0
    /\ citation_ok = 0
    /\ completeness_scores = <<>>
    /\ missing_topics = <<>>
    /\ svcCalls = <<>>
    /\ outcome = "running"
    /\ report = <<>>

\* "audit_sessions: dict = {}": the server has taken no request
ApiIdle ==
    /\ audit_sessions = <<>>
    /\ audit_pc = <<>>
    /\ bench_posts = <<>>
    /\ bench_inflight = <<>>
    /\ last_response = [session_id |-> 0, status |-> "none"]

\* no helper is called on its own while crawl_site or the benchmark runs
NoCall == [fn |-> "none", args |-> <<>>, done |-> FALSE, result |-> <<>>]

\* crawl_site(start_url, max_pages) called on its own
CrawlInit ==
    /\ engine \in Engines
    /\ caller = "direct"
    /\ pc = "crawl"
    /\ start_url \in Seeds
    /\ max_pages \in 0..MaxPagesBound
    /\ CrawlLocalsInit
    /\ credential = FALSE
    /\ queries = <<>>
    /\ BenchLocalsInit
    /\ call = NoCall
    /\ ApiIdle

CrawlNext == CrawlStep

CrawlSpec == CrawlInit /\ [][CrawlNext]_vars /\ WF_vars(CrawlNext)

----------------------------------------------------------------------------
(* run_answerability_benchmark: what both implementations share *)

DEFAULT_QUERIES ==
    << <<"What", "services", "do", "you", "offer?">>,
       <<"What", "is", "your", "pricing?">>,
       <<"Where", "are", "you", "located?">>,
       <<"What", "are", "your", "business", "hours?">>,
       <<"Do", "you", "offer", "refunds", "or", "a", "money-back", "guarantee?">> >>

\* the custom questions a caller may pass
CustomQuestions ==
    { <<"pricing?">>,
      <<"Is", "the", "pricing", "list", "not", "found?">> }

\* "list(queries) if queries else DEFAULT_QUERIES"
queries_list == IF queries /= <<>> THEN queries ELSE DEFAULT_QUERIES

\* "total = max(1, len(queries_list))"
total == Max(1, Len(queries_list))

\* crawl_site's default max_pages, used by the per-question engine
DefaultMaxPages == 15

\* the max_pages the single-call engine passes
SingleCallMaxPages == 10

MkReport(n_pages, n_chunks, overall, query_results, missing) ==
    [site_url |-> start_url,
     crawled_pages |-> n_pages,
     indexed_chunks |-> n_chunks,
     queries_run |-> Len(queries_list),
     overall_scores |-> overall,
     query_results |-> query_results,
     missing_topics |-> missing]

\* the overall scores, in hundredths
MkOverall(a, c, h, m) ==
    [answerability_rate |-> a, citation_coverage |-> c,
     hallucination_rate |-> h, completeness |-> m]

MkResult(query, answer, status, citations, is_answerable, cit_ok, compl) ==
    [query |-> query, answer |-> answer, status |-> status, citations |-> citations,
     metrics |-> [answerable |-> is_answerable, citation_ok |-> cit_ok,
                  hallucination |-> FALSE, completeness |-> compl]]

----------------------------------------------------------------------------
(* per-question engine: src/ai_tool_anayze/backend/benchmark.py *)

\* the relevance gate of _build_answer
RelevanceThreshold == Frac(1, 5)

\* mutant: only an empty selection is gated, the score is not looked at
GateFails_EmptyOnly(top_chunks) == top_chunks = <<>>

\* "if not top_chunks or top_chunks[0][2] < 0.2"
GateFails(top_chunks) ==
    IF top_chunks = <<>> THEN TRUE
    ELSE FracLess(top_chunks[1].score, RelevanceThreshold)

\* what the completion service may answer with
CompletionTexts ==
    { <<"pricing", "[1]">>,
      <<"Not", "Found", "[1]">>,
      <<"ok", "[0]", "[4]">>,
      <<"NOT", "FOUND">> }

\* how client.chat.completions.create(...).choices[0].message.content.strip()
\* may fail
CompletionErrors == {"api_error", "timeout", "no_content"}

\* the question the for loop is at
CurrentQuery == queries_list[Len(results) + 1]

TopChunksOf(query) == _select_top_chunks(query, chunks, DefaultTopK)

\* lines 197-208: the chunk index and the accumulators
PQ_BuildIndex ==
    /\ pc = "crawl_returned"
    /\ caller = "benchmark"
    /\ engine = "per_question"
    /\ chunks' = BuildChunks(pages)
    /\ pc' = "queries"
    /\ UNCHANGED crawlVars
    /\ UNCHANGED <<engine, caller, credential, queries, results, answerable,
                   citation_ok, completeness_scores, missing_topics, svcCalls,
                   outcome, report>>
    /\ UNCHANGED fnVars
    /\ UNCHANGED apiVars

\* mutant: a question that was not answered is put in front of the list
MissingAfter_Prepend(query, is_answerable) ==
    IF is_answerable THEN missing_topics ELSE <<query>> \o missing_topics

\* lines 219-224: "else: missing_topics.append(query)"
MissingAfter(query, is_answerable) ==
    IF is_answerable THEN missing_topics ELSE Append(missing_topics, query)

\* the rest of one loop iteration (lines 214-241) once _build_answer returned
RecordAnswer(query, answer, citations, is_answerable) ==
    LET completeness == _completeness_score(query, answer)
    IN  /\ answerable' = IF is_answerable THEN answerable + 1 ELSE answerable
        /\ citation_ok' = IF is_answerable /\ citations /= <<>>
                            THEN citation_ok + 1 ELSE citation_ok
        /\ missing_topics' = MissingAfter(query, is_answerable)
        /\ completeness_scores' = Append(completeness_scores, completeness)
        /\ results' = Append(results,
              MkResult(query, answer,
                       IF is_answerable THEN "answered" ELSE "not_found",
                       citations, is_answerable, citations /= <<>>,
                       Round2(completeness.num, completeness.den)))

InQueryLoop ==
    /\ pc = "queries"
    /\ Len(results) < Len(queries_list)

\* one iteration whose question does not pass the gate
PQ_Gated ==
    /\ InQueryLoop
    /\ GateFails(TopChunksOf(CurrentQuery))
    /\ RecordAnswer(CurrentQuery, <<"NOT", "FOUND">>, <<>>, FALSE)
    /\ svcCalls' = Append(svcCalls, 0)
    /\ UNCHANGED <<engine, caller, pc, crawlVars, credential, queries, chunks,
                   outcome, report>>
    /\ UNCHANGED fnVars
    /\ UNCHANGED apiVars

\* one iteration whose question passes the gate with no credential set:
\* _call_openai_answer raises RuntimeError before any request is made
PQ_ConfigError ==
    /\ InQueryLoop
    /\ ~GateFails(TopChunksOf(CurrentQuery))
    /\ ~credential
    /\ svcCalls' = Append(svcCalls, 0)
    /\ pc' = "raised"
    /\ outcome' = "config_error"
    /\ UNCHANGED <<engine, caller, crawlVars, credential, queries, chunks, results,
                   answerable, citation_ok, completeness_scores, missing_topics,
                   report>>
    /\ UNCHANGED fnVars
    /\ UNCHANGED apiVars

\* one iteration whose completion request fails: nothing catches the error
PQ_CompletionError ==
    /\ InQueryLoop
    /\ ~GateFails(TopChunksOf(CurrentQuery))
    /\ credential
    /\ svcCalls' = Append(svcCalls, 1)
    /\ pc' = "raised"
    /\ \E e \in CompletionErrors : outcome' = e
    /\ UNCHANGED <<engine, caller, crawlVars, credential, queries, chunks, results,
                   answerable, citation_ok, completeness_scores, missing_topics,
                   report>>
    /\ UNCHANGED fnVars
    /\ UNCHANGED apiVars

\* one iteration whose completion request returns a text
PQ_Answered ==
    /\ InQueryLoop
    /\ ~GateFails(TopChunksOf(CurrentQuery))
    /\ credential
    /\ \E answer \in CompletionTexts :
         LET sources == _build_context(TopChunksOf(CurrentQuery))
         IN  RecordAnswer(CurrentQuery, answer,
                          _extract_citations(answer, sources),
                          ~ContainsNotFound(answer))
    /\ svcCalls' = Append(svcCalls, 1)
    /\ UNCHANGED <<engine, caller, pc, crawlVars, credential, queries, chunks,
                   outcome, report>>
    /\ UNCHANGED fnVars
    /\ UNCHANGED apiVars

RECURSIVE SumFracs(_)
SumFracs(fs) == IF fs = <<>> THEN Frac(0, 1) ELSE FracAdd(Head(fs), SumFracs(Tail(fs)))

\* lines 243-260: the overall scores and the report
PQ_Return ==
    /\ pc = "queries"
    /\ Len(results) = Len(queries_list)
    /\ LET s == SumFracs(completeness_scores)
           overall == MkOverall(Round2(answerable, total),
                                Round2(citation_ok, total),
                                Round2(0, total),
                                IF completeness_scores /= <<>>
                                  THEN Round2(s.num, s.den * total) ELSE 0)
       IN  report' = <<MkReport(Len(pages), Len(chunks), overall, results,
                                missing_topics)>>
    /\ pc' = "returned"
    /\ outcome' = "report"
    /\ UNCHANGED <<engine, caller, crawlVars, credential, queries, chunks, results,
                   answerable, citation_ok, completeness_scores, missing_topics,
                   svcCalls>>
    /\ UNCHANGED fnVars
    /\ UNCHANGED apiVars

PerQuestionStep ==
    PQ_BuildIndex \/ PQ_Gated \/ PQ_ConfigError \/ PQ_CompletionError
        \/ PQ_Answered \/ PQ_Return

----------------------------------------------------------------------------
(* single-call engine: src/backend/benchmark.py *)

\* one element of the JSON array the completion returns.  query: "same" (the
\* text of the input question at that position), "other" (some other text) or
\* "absent"; answer: a string, absent, or a JSON value that is no string
StrAnswer(text) == [t |-> "str", v |-> text]

Items ==
    { [isDict |-> TRUE,  query |-> "same",   answer |-> StrAnswer(<<"pricing", "ok">>), found |-> TRUE],
      [isDict |-> TRUE,  query |-> "same",   answer |-> StrAnswer(<<"NOT", "FOUND">>), found |-> FALSE],
      [isDict |-> TRUE,  query |-> "same",   answer |-> StrAnswer(<<"Not", "found", "here">>), found |-> TRUE],
      [isDict |-> TRUE,  query |-> "other",  answer |-> StrAnswer(<<"pricing", "ok">>), found |-> TRUE],
      [isDict |-> TRUE,  query |-> "absent", answer |-> [t |-> "absent", v |-> <<>>], found |-> FALSE],
      [isDict |-> TRUE,  query |-> "same",   answer |-> [t |-> "nonstr", v |-> <<"42">>], found |-> TRUE],
      [isDict |-> FALSE, query |-> "absent", answer |-> [t |-> "absent", v |-> <<>>], found |-> FALSE] }

\* what the one completion request may do: raise, return text that is no JSON,
\* or return JSON: a scalar, an object (with at least one key) or an array
Responses ==
    { [kind |-> k, items |-> <<>>] : k \in {"raise", "nonjson", "scalar", "object"} }
        \cup { [kind |-> "array", items |-> its] : its \in SeqsUpTo(Items, MaxItems) }

OtherQuestion == <<"Some", "other", "question">>

\* lines 226 and 229: the results built by the two except branches
ErrorResults(answer) ==
    [i \in 1..Len(queries_list) |->
        [isDict |-> TRUE, query |-> "same", answer |-> StrAnswer(answer), found |-> FALSE]]

\* result.get("query", queries_list[i] if i < len(queries_list) else f"Question {i+1}")
QueryOf(result, pos) ==
    IF result.query = "other" \/ (result.query = "same" /\ pos > Len(queries_list))
      THEN OtherQuestion
    ELSE IF pos <= Len(queries_list) THEN queries_list[pos]
    ELSE <<"Question", ToString(pos)>>

\* result.get("answer", "NOT FOUND")
AnswerOf(result) ==
    IF result.answer.t = "absent" THEN <<"NOT", "FOUND">> ELSE result.answer.v

\* lines 236-259: the loop over the parsed results; acc.error names the
\* exception that left the loop, "" for none
RECURSIVE ProcessResults(_, _, _)
ProcessResults(items, pos, acc) ==
    IF pos > Len(items) THEN acc
    ELSE LET result == items[pos]
         IN  IF ~result.isDict
               THEN [acc EXCEPT !.error = "AttributeError"]
             ELSE IF result.found /\ result.answer.t = "nonstr"
               THEN [acc EXCEPT !.error = "AttributeError"]
             ELSE LET query    == QueryOf(result, pos)
                      answer   == AnswerOf(result)
                      found    == result.found
                      answered == found /\ ~ContainsNotFound(answer)
                      qr == MkResult(query, answer,
                              IF answered THEN "answered" ELSE "not_found",
                              IF found
                                THEN <<[url |-> pages[1].url, section |-> "page"]>>
                                ELSE <<>>,
                              found, found, IF found THEN 100 ELSE 0)
                  IN  ProcessResults(items, pos + 1,
                        [acc EXCEPT
                           !.query_results = Append(@, qr),
                           !.answered_count = IF answered THEN @ + 1 ELSE @,
                           !.missing_topics = IF answered THEN @ ELSE Append(@, query)])

\* lines 126-150: nothing was crawled
SC_EmptyCrawl ==
    /\ pc = "crawl_returned"
    /\ caller = "benchmark"
    /\ engine = "single_call"
    /\ pages = <<>>
    /\ LET qrs == [i \in 1..Len(queries_list) |->
                     MkResult(queries_list[i], <<"Could", "not", "crawl", "website">>,
                              "not_found", <<>>, FALSE, FALSE, 0)]
       IN  /\ report' = <<MkReport(0, 0, MkOverall(0, 0, 0, 0), qrs, queries_list)>>
           /\ results' = qrs
           /\ missing_topics' = queries_list
    /\ pc' = "returned"
    /\ outcome' = "report"
    /\ UNCHANGED crawlVars
    /\ UNCHANGED <<engine, caller, credential, queries, chunks, answerable,
                   citation_ok, completeness_scores, svcCalls>>
    /\ UNCHANGED fnVars
    /\ UNCHANGED apiVars

\* lines 194-196: pages were crawled and no credential is set
SC_ConfigError ==
    /\ pc = "crawl_returned"
    /\ caller = "benchmark"
    /\ engine = "single_call"
    /\ pages /= <<>>
    /\ ~credential
    /\ pc' = "raised"
    /\ outcome' = "config_error"
    /\ UNCHANGED crawlVars
    /\ UNCHANGED <<engine, caller, credential, queries, chunks, results, answerable,
                   citation_ok, completeness_scores, missing_topics, svcCalls, report>>
    /\ UNCHANGED fnVars
    /\ UNCHANGED apiVars

\* lines 198-279: the one completion request, the parse of its answer, the
\* loop over the parsed results and the report
SC_Complete ==
    /\ pc = "crawl_returned"
    /\ caller = "benchmark"
    /\ engine = "single_call"
    /\ pages /= <<>>
    /\ credential
    /\ svcCalls' = <<1>>
    /\ \E resp \in Responses :
         LET parsed ==
               CASE resp.kind = "raise"   -> ErrorResults(<<"Error:", "service", "failed">>)
                 [] resp.kind = "nonjson" -> ErrorResults(<<"Error", "parsing", "response">>)
                 [] resp.kind = "object"  ->
                      <<[isDict |-> FALSE, query |-> "absent",
                         answer |-> [t |-> "absent", v |-> <<>>], found |-> FALSE]>>
                 [] OTHER                 -> resp.items
             r == IF resp.kind = "scalar"
                    THEN [error |-> "TypeError", query_results |-> <<>>,
                          answered_count |-> 0, missing_topics |-> <<>>]
                    ELSE ProcessResults(parsed, 1,
                           [error |-> "", query_results |-> <<>>,
                            answered_count |-> 0, missing_topics |-> <<>>])
             overall == MkOverall(Round2(r.answered_count, total),
                                  Round2(r.answered_count, total),
                                  0,
                                  Round2(r.answered_count, total))
         IN  /\ results' = r.query_results
             /\ answerable' = r.answered_count
             /\ missing_topics' = r.missing_topics
             /\ IF r.error = ""
                  THEN /\ report' = <<MkReport(Len(pages), Len(pages), overall,
                                               r.query_results, r.missing_topics)>>
                       /\ pc' = "returned"
                       /\ outcome' = "report"
                  ELSE /\ report' = report
                       /\ pc' = "raised"
                       /\ outcome' = r.error
    /\ UNCHANGED crawlVars
    /\ UNCHANGED <<engine, caller, credential, queries, chunks, citation_ok,
                   completeness_scores>>
    /\ UNCHANGED fnVars
    /\ UNCHANGED apiVars

SingleCallStep == SC_EmptyCrawl \/ SC_ConfigError \/ SC_Complete

----------------------------------------------------------------------------
(* run_answerability_benchmark(site_url, queries) *)

Init ==
    /\ engine \in Engines
    /\ caller = "benchmark"
    /\ pc = "crawl"
    /\ start_url \in Seeds
    /\ max_pages = IF engine = "per_question" THEN DefaultMaxPages ELSE SingleCallMaxPages
    /\ CrawlLocalsInit
    /\ credential \in BOOLEAN
    /\ queries \in SeqsUpTo(CustomQuestions, MaxQueries)
    /\ BenchLocalsInit
    /\ call = NoCall
    /\ ApiIdle

Next == CrawlStep \/ PerQuestionStep \/ SingleCallStep

Spec == Init /\ [][Next]_vars /\ WF_vars(Next)

----------------------------------------------------------------------------
(* The helpers called on their own *)

\* _extract_links(base_url, html, max_links): the page's anchors and the cap
ExtractLinksCalls ==
    { [fn |-> "_extract_links",
       args |-> [base_url |-> b, anchors |-> a, max_links |-> m],
       done |-> FALSE, result |-> <<>>] :
        b \in {<<"http://a.com">>, <<"http://a.com", "/", "blog">>},
        a \in SeqsUpTo(Hrefs, MaxHtmlAnchors),
        m \in 0..MaxCap }

\* a text of n different words
WordsOf(n) == [i \in 1..n |-> ToString(i)]

\* _chunk_text(text, chunk_size, overlap) with 0 <= overlap < chunk_size
ChunkTextCalls ==
    UNION { { [fn |-> "_chunk_text",
               args |-> [text |-> WordsOf(n), chunk_size |-> c, overlap |-> o],
               done |-> FALSE, result |-> <<>>] :
                n \in 0..MaxWords, o \in 0..(c - 1) } :
            c \in 1..MaxChunkSize }

ScoreQueries ==
    { <<>>, <<"??">>, <<"pricing?">>, <<"pricing", "pricing?">>,
      <<"Is", "the", "pricing">> }

ScoreChunks ==
    { <<>>, <<"pricing">>, <<"Pricing:", "pricing">>, <<"about", "the", "the">>,
      <<"the", "pricing", "the", "Pricing:">> }

\* _score_overlap(query, chunk)
ScoreOverlapCalls ==
    { [fn |-> "_score_overlap", args |-> [query |-> q, chunk |-> c],
       done |-> FALSE, result |-> <<>>] :
        q \in ScoreQueries, c \in ScoreChunks }

\* the (url, chunk) entries of a chunk index
IndexEntries ==
    { [url |-> u, chunk |-> c] :
        u \in {<<"http://a.com">>, <<"http://a.com", "/", "blog">>},
        c \in {<<"pricing">>, <<"the", "pricing", "pricing">>, <<"about">>} }

\* _select_top_chunks(query, chunks, top_k)
SelectTopChunksCalls ==
    { [fn |-> "_select_top_chunks", args |-> [query |-> q, chunks |-> cs, top_k |-> k],
       done |-> FALSE, result |-> <<>>] :
        q \in {<<"pricing?">>, <<"the", "pricing">>},
        cs \in SeqsUpTo(IndexEntries, MaxChunks),
        k \in 0..MaxTopK }

CitationAnswers ==
    { <<"X", "[1]", "and", "Y", "[3]">>,
      <<"ok", "[0]", "[4]">>,
      <<"[2]", "[1]", "[2]">>,
      <<"no", "markers">> }

SourceUrls ==
    { <<"http://a.com", "/", "contact">>,
      <<"http://a.com", "/", "about">>,
      <<"http://a.com">> }

\* _extract_citations(answer, sources)
ExtractCitationsCalls ==
    { [fn |-> "_extract_citations", args |-> [answer |-> a, sources |-> srcs],
       done |-> FALSE, result |-> <<>>] :
        a \in CitationAnswers, srcs \in SeqsUpTo(SourceUrls, MaxSources) }

\* the call returns r
Returns(r) ==
    /\ pc = "call"
    /\ ~call.done
    /\ call' = [call EXCEPT !.done = TRUE, !.result = r]
    /\ UNCHANGED <<engine, caller, pc, crawlVars, benchVars>>
    /\ UNCHANGED apiVars

Call_extract_links ==
    /\ call.fn = "_extract_links"
    /\ Returns(_extract_links(call.args.base_url, call.args.anchors, call.args.max_links))

Call_chunk_text ==
    /\ call.fn = "_chunk_text"
    /\ Returns(_chunk_text(call.args.text, call.args.chunk_size, call.args.overlap))

Call_score_overlap ==
    /\ call.fn = "_score_overlap"
    /\ Returns(_score_overlap(call.args.query, call.args.chunk))

Call_select_top_chunks ==
    /\ call.fn = "_select_top_chunks"
    /\ Returns(_select_top_chunks(call.args.query, call.args.chunks, call.args.top_k))

Call_extract_citations ==
    /\ call.fn = "_extract_citations"
    /\ Returns(_extract_citations(call.args.answer, call.args.sources))

FnInit ==
    /\ engine = "per_question"
    /\ caller = "direct"
    /\ pc = "call"
    /\ start_url = <<"http://a.com">>
    /\ max_pages = 0
    /\ CrawlLocalsInit
    /\ credential = FALSE
    /\ queries = <<>>
    /\ BenchLocalsInit
    /\ call \in ExtractLinksCalls \cup ChunkTextCalls \cup ScoreOverlapCalls
                  \cup SelectTopChunksCalls \cup ExtractCitationsCalls
    /\ ApiIdle

FnNext ==
    Call_extract_links \/ Call_chunk_text \/ Call_score_overlap
        \/ Call_select_top_chunks \/ Call_extract_citations

FnSpec == FnInit /\ [][FnNext]_vars /\ WF_vars(FnNext)

----------------------------------------------------------------------------
(* _chunk_text, one loop iteration at a time *)

\* the call before its first statement: start = 0, chunks = []
ChunkLoopCalls ==
    UNION { { [fn |-> "_chunk_text",
               args |-> [text |-> WordsOf(n), chunk_size |-> c, overlap |-> o],
               done |-> FALSE, result |-> <<>>, start |-> 0] :
                n \in 0..MaxWords, o \in 0..(c - 1) } :
            c \in 1..MaxChunkSize }

\* mutant: the overlap is subtracted the wrong way round
NextStart_Flipped(end, overlap) == Max(0, overlap - end)

\* "start = max(0, end - overlap)"
NextStart(end, overlap) == Max(0, end - overlap)

\* one iteration of "while start < len(words)": the window is appended; the
\* iteration that reaches the end of the words breaks and the call returns
ChunkIterate ==
    /\ pc = "chunk_loop"
    /\ ~call.done
    /\ call.args.text /= <<>>
    /\ call.start < Len(call.args.text)
    /\ LET words == call.args.text
           end   == Min(Len(words), call.start + call.args.chunk_size)
           chunk == SubSeq(words, call.start + 1, end)
       IN  call' = IF end >= Len(words)
                     THEN [call EXCEPT !.result = Append(@, chunk), !.done = TRUE]
                     ELSE [call EXCEPT !.result = Append(@, chunk),
                                       !.start = NextStart(end, call.args.overlap)]
    /\ UNCHANGED <<engine, caller, pc, crawlVars, benchVars>>
    /\ UNCHANGED apiVars

\* "if not text: return []", and the return after a loop that never ran: in
\* both cases there is no word
ChunkReturnEmpty ==
    /\ pc = "chunk_loop"
    /\ ~call.done
    /\ ~(call.start < Len(call.args.text))
    /\ call' = [call EXCEPT !.done = TRUE]
    /\ UNCHANGED <<engine, caller, pc, crawlVars, benchVars>>
    /\ UNCHANGED apiVars

ChunkInit ==
    /\ engine = "per_question"
    /\ caller = "direct"
    /\ pc = "chunk_loop"
    /\ start_url = <<"http://a.com">>
    /\ max_pages = 0
    /\ CrawlLocalsInit
    /\ credential = FALSE
    /\ queries = <<>>
    /\ BenchLocalsInit
    /\ call \in ChunkLoopCalls
    /\ ApiIdle

ChunkNext == ChunkIterate \/ ChunkReturnEmpty

ChunkSpec == ChunkInit /\ [][ChunkNext]_vars /\ WF_vars(ChunkNext)

----------------------------------------------------------------------------
(* src/backend/main.py: the audit pipeline and the benchmark endpoints *)

\* start_audit: the session dict; it has no benchmark_status and no
\* benchmark_data key yet
NewSession ==
    [url |-> <<"http://a.com">>, status |-> "pending", progress |-> 0,
     message |-> "Audit queued...", audit_data |-> "null",
     llmstxt_content |-> "null", error |-> "null",
     benchmark_status |-> "absent", benchmark_data |-> "absent"]

Sessions == DOMAIN audit_sessions

\* POST /api/audit
start_audit ==
    /\ pc = "api"
    /\ Len(audit_sessions) < MaxSessions
    /\ audit_sessions' = Append(audit_sessions, NewSession)
    /\ audit_pc' = Append(audit_pc, "queued")
    /\ bench_posts' = Append(bench_posts, 0)
    /\ bench_inflight' = Append(bench_inflight, 0)
    /\ UNCHANGED <<engine, caller, pc, crawlVars, benchVars, fnVars, last_response>>

\* run_site_audit, lines 131-133
RunSiteAuditBegin(s) ==
    /\ pc = "api"
    /\ audit_pc[s] = "queued"
    /\ audit_sessions' = [audit_sessions EXCEPT
                            ![s].status = "running",
                            ![s].message = "Running SEO audit...",
                            ![s].progress = 10]
    /\ audit_pc' = [audit_pc EXCEPT ![s] = "site_audit"]
    /\ UNCHANGED <<engine, caller, pc, crawlVars, benchVars, fnVars, bench_posts,
                   bench_inflight, last_response>>

\* how the try block of run_site_audit ends: the JSON report was written; the
\* tool exited with an error and wrote none; the 120 s of polling passed with
\* no report (the code raises); something else raised
SiteAuditOutcomes == {"json", "process_failed", "no_json", "exception"}

\* run_site_audit, lines 135-224: every way out sets audit_data and progress 50
RunSiteAuditEnd(s) ==
    /\ pc = "api"
    /\ audit_pc[s] = "site_audit"
    /\ \E how \in SiteAuditOutcomes :
         audit_sessions' = [audit_sessions EXCEPT
             ![s].audit_data = IF how = "json" THEN "report" ELSE "minimal",
             ![s].progress = 50,
             ![s].message =
                 CASE how = "json" -> "SEO audit complete. Generating LLM context..."
                   [] how = "process_failed" ->
                        "Basic audit mode (full crawl unavailable). Generating LLM context..."
                   [] OTHER -> "Continuing in basic mode..."]
    /\ audit_pc' = [audit_pc EXCEPT ![s] = "site_audit_returned"]
    /\ UNCHANGED <<engine, caller, pc, crawlVars, benchVars, fnVars, bench_posts,
                   bench_inflight, last_response>>

\* mutant: the progress written when the generation starts lacks its zero
LlmstxtStarted_Typo(session) ==
    [session EXCEPT !.message = "Generating LLM context file...", !.progress = 6]

\* run_llmstxt_generation, lines 233-234
LlmstxtStarted(session) ==
    [session EXCEPT !.message = "Generating LLM context file...", !.progress = 60]

\* run_full_audit, lines 312-315
AuditFailed(session, e) ==
    [session EXCEPT !.status = "failed", !.error = e,
                    !.message = "Audit failed: " \o e]

\* run_full_audit line 301 and run_llmstxt_generation lines 229-234:
\* output_dir.mkdir is outside the function's try block, so its error reaches
\* run_full_audit's except branch
RunLlmstxtBegin(s) ==
    /\ pc = "api"
    /\ audit_pc[s] = "site_audit_returned"
    /\ IF audit_sessions[s].status = "failed"
         THEN /\ audit_pc' = [audit_pc EXCEPT ![s] = "done"]
              /\ UNCHANGED audit_sessions
         ELSE \E mkdir \in {"ok", "raise"} :
                IF mkdir = "ok"
                  THEN /\ audit_sessions' = [audit_sessions EXCEPT
                                               ![s] = LlmstxtStarted(@)]
                       /\ audit_pc' = [audit_pc EXCEPT ![s] = "llmstxt"]
                  ELSE /\ audit_sessions' = [audit_sessions EXCEPT
                                               ![s] = AuditFailed(@, "OSError")]
                       /\ audit_pc' = [audit_pc EXCEPT ![s] = "done"]
    /\ UNCHANGED <<engine, caller, pc, crawlVars, benchVars, fnVars, bench_posts,
                   bench_inflight, last_response>>

\* how the try block of run_llmstxt_generation ends: a generated file was
\* read; the tool exited with 0 and left no file; it exited with an error; the
\* 60 s passed; something raised (the script is missing, the tool cannot start)
LlmstxtOutcomes == {"content", "no_file", "nonzero_exit", "timeout", "exception"}

\* run_llmstxt_generation, lines 236-292: the except branch leaves progress
\* as it was
RunLlmstxtEnd(s) ==
    /\ pc = "api"
    /\ audit_pc[s] = "llmstxt"
    /\ \E how \in LlmstxtOutcomes :
         audit_sessions' = [audit_sessions EXCEPT
             ![s].llmstxt_content = IF how = "content" THEN "text" ELSE "null",
             ![s].progress = IF how = "exception" THEN @ ELSE 90,
             ![s].message = IF how = "exception" THEN @ ELSE "Finalizing..."]
    /\ audit_pc' = [audit_pc EXCEPT ![s] = "llmstxt_returned"]
    /\ UNCHANGED <<engine, caller, pc, crawlVars, benchVars, fnVars, bench_posts,
                   bench_inflight, last_response>>

\* run_full_audit, lines 307-310
RunFullAuditComplete(s) ==
    /\ pc = "api"
    /\ audit_pc[s] = "llmstxt_returned"
    /\ audit_sessions' = [audit_sessions EXCEPT
                            ![s].status = "completed",
                            ![s].progress = 100,
                            ![s].message = "Audit complete!"]
    /\ audit_pc' = [audit_pc EXCEPT ![s] = "done"]
    /\ UNCHANGED <<engine, caller, pc, crawlVars, benchVars, fnVars, bench_posts,
                   bench_inflight, last_response>>

\* the steps of the background task run_full_audit
AuditTaskNext ==
    \E s \in Sessions :
        \/ RunSiteAuditBegin(s)
        \/ RunSiteAuditEnd(s)
        \/ RunLlmstxtBegin(s)
        \/ RunLlmstxtEnd(s)
        \/ RunFullAuditComplete(s)

\* POST /api/benchmark for a known session: the status is set to running and
\* a run_benchmark_task is added, whatever the status was
run_benchmark(s) ==
    /\ pc = "api"
    /\ bench_posts[s] < MaxBenchPosts
    /\ audit_sessions' = [audit_sessions EXCEPT
                            ![s].benchmark_status = "running",
                            ![s].benchmark_data = "null"]
    /\ bench_posts' = [bench_posts EXCEPT ![s] = @ + 1]
    /\ bench_inflight' = [bench_inflight EXCEPT ![s] = @ + 1]
    /\ UNCHANGED <<engine, caller, pc, crawlVars, benchVars, fnVars, audit_pc,
                   last_response>>

\* run_benchmark_task: run_answerability_benchmark returned a report or raised
run_benchmark_task(s) ==
    /\ pc = "api"
    /\ bench_inflight[s] > 0
    /\ \E how \in {"report", "raise"} :
         audit_sessions' = [audit_sessions EXCEPT
             ![s].benchmark_status = IF how = "report" THEN "completed" ELSE "failed",
             ![s].benchmark_data = IF how = "report" THEN "report" ELSE "error"]
    /\ bench_inflight' = [bench_inflight EXCEPT ![s] = @ - 1]
    /\ UNCHANGED <<engine, caller, pc, crawlVars, benchVars, fnVars, audit_pc,
                   bench_posts, last_response>>

\* the status of the response of GET /api/benchmark/{session_id}
BenchmarkStatusOf(session) ==
    IF session.benchmark_status = "absent" THEN "not_started"
    ELSE IF session.benchmark_status = "running" THEN "running"
    ELSE IF session.benchmark_status = "failed" THEN "failed"
    ELSE "completed"

\* GET /api/benchmark/{session_id} for a known session
get_benchmark_status(s) ==
    /\ pc = "api"
    /\ last_response' = [session_id |-> s,
                         status |-> BenchmarkStatusOf(audit_sessions[s])]
    /\ UNCHANGED <<engine, caller, pc, crawlVars, benchVars, fnVars, audit_sessions,
                   audit_pc, bench_posts, bench_inflight>>

BenchmarkNext ==
    \E s \in Sessions :
        run_benchmark(s) \/ run_benchmark_task(s) \/ get_benchmark_status(s)

ApiInit ==
    /\ engine = "single_call"
    /\ caller = "api"
    /\ pc = "api"
    /\ start_url = <<"http://a.com">>
    /\ max_pages = 0
    /\ CrawlLocalsInit
    /\ credential = FALSE
    /\ queries = <<>>
    /\ BenchLocalsInit
    /\ call = NoCall
    /\ ApiIdle

ApiNext == start_audit \/ AuditTaskNext \/ BenchmarkNext

\* the event loop runs every background task it was given
ApiSpec ==
    ApiInit /\ [][ApiNext]_vars /\ WF_vars(AuditTaskNext)
        /\ WF_vars(\E s \in Sessions : run_benchmark_task(s))

----------------------------------------------------------------------------
(* Claims about crawl_site, checked under CrawlSpec *)

PageUrls == {pages[i].url : i \in 1..Len(pages)}

\* C1: within one call of crawl_site no URL is fetched more than once: every
\* fetched URL is in the visited set and appears once in the list of fetches,
\* whether its fetch succeeded, raised or answered with a status >= 400.
C1_NoUrlFetchedTwice ==
    /\ \A i, j \in 1..Len(fetchLog) : i /= j => fetchLog[i] /= fetchLog[j]
    /\ Range(fetchLog) \subseteq seen

\* C1 witness: a URL whose fetch failed earlier was popped again and skipped
C1_Witness ==
    /\ lastIter.kind = "skip"
    /\ lastIter.url \in Range(fetchLog)
    /\ lastIter.url \notin PageUrls

\* C2: every fetched URL, every collected page, every link the loop enqueued
\* and every queue entry has the netloc of the seed.
C2_SameHostOnly ==
    \A u \in Range(fetchLog) \cup PageUrls \cup Range(enqLog) \cup Range(queue) :
        Netloc(u) = Netloc(start_url)

\* C2 witness: a fetched page carried a link to another host, and the crawl
\* enqueued some link before
C2_Witness ==
    /\ lastIter.kind = "ok"
    /\ \E i \in 1..Len(lastIter.links) : Netloc(lastIter.links[i]) /= Netloc(start_url)
    /\ enqLog /= <<>>

\* C3: crawl_site terminates; the result never holds more than max_pages
\* pages; at return the queue is empty or len(pages) = max_pages.
C3_TerminatesWithinCap ==
    /\ <>(pc = "crawl_returned")
    /\ [](Len(pages) <= max_pages)
    /\ [](pc = "crawl_returned" => (queue = <<>> \/ Len(pages) = max_pages))

\* C3 witness: the crawl returned on the page cap with work left in the queue
C3_Witness ==
    /\ pc = "crawl_returned"
    /\ caller = "direct"
    /\ queue /= <<>>
    /\ max_pages > 0
    /\ Len(pages) = max_pages

----------------------------------------------------------------------------
(* Claims about run_answerability_benchmark, checked under Spec *)

Finished == pc \in {"returned", "raised"}

\* the gate as the claim words it: no chunk selected, or a top score below 0.2
BelowGate(query) ==
    LET top_chunks == TopChunksOf(query)
    IN  IF top_chunks = <<>> THEN TRUE
        ELSE 5 * top_chunks[1].score.num < top_chunks[1].score.den

ReportFields ==
    {"site_url", "crawled_pages", "indexed_chunks", "queries_run",
     "overall_scores", "query_results", "missing_topics"}

\* C5 as stated: with the credential set, every finished run returned a report
\* with the seven fields and one query result per input question.
C5_AlwaysCompleteReport ==
    (credential /\ Finished) =>
        /\ outcome = "report"
        /\ report /= <<>>
        /\ DOMAIN report[1] = ReportFields
        /\ Len(report[1].query_results) = Len(queries_list)

\* C6 as stated: with no credential, no question is processed (no retrieval, no
\* gating, no query result) and the run ends with the configuration error.
C6_ConfigErrorBeforeQuestions ==
    ~credential =>
        /\ results = <<>>
        /\ svcCalls = <<>>
        /\ Finished => outcome = "config_error"

\* C7 as stated: a run whose crawl collected no page returns zero counts, zero
\* scores, every question not_found with answer "Could not crawl website",
\* missing_topics equal to the input questions, and makes no completion request.
C7_EmptyCrawlReport ==
    (Finished /\ pages = <<>>) =>
        /\ outcome = "report"
        /\ report /= <<>>
        /\ report[1].crawled_pages = 0
        /\ report[1].indexed_chunks = 0
        /\ report[1].overall_scores = MkOverall(0, 0, 0, 0)
        /\ Len(report[1].query_results) = Len(queries_list)
        /\ \A i \in 1..Len(report[1].query_results) :
             /\ report[1].query_results[i].status = "not_found"
             /\ report[1].query_results[i].answer = <<"Could", "not", "crawl", "website">>
        /\ report[1].missing_topics = queries_list
        /\ \A i \in 1..Len(svcCalls) : svcCalls[i] = 0

\* C8 as stated: for a non-empty question list, queries_run =
\* len(query_results) = len(input questions) in every report.
C8_OneResultPerQuestion ==
    (pc = "returned" /\ queries /= <<>>) =>
        /\ report[1].queries_run = Len(queries)
        /\ Len(report[1].query_results) = Len(queries)

\* C9 as stated: the four overall scores of every report lie in [0, 1]
\* (0..100 hundredths).
C9_RatesInUnitInterval ==
    pc = "returned" =>
        /\ report[1].overall_scores.answerability_rate \in 0..100
        /\ report[1].overall_scores.citation_coverage \in 0..100
        /\ report[1].overall_scores.hallucination_rate \in 0..100
        /\ report[1].overall_scores.completeness \in 0..100

\* the queries of the results with status not_found, in result order
RECURSIVE NotFoundQueries(_)
NotFoundQueries(rs) ==
    IF rs = <<>> THEN <<>>
    ELSE (IF Head(rs).status = "not_found" THEN <<Head(rs).query>> ELSE <<>>)
           \o NotFoundQueries(Tail(rs))

\* C10: per-question engine.  The i-th result is about the i-th input
\* question, and missing_topics is the sequence of the questions whose result
\* has status not_found, in input order, during the loop and in the report.
C10_MissingTopicsExact ==
    engine = "per_question" =>
        /\ Len(results) <= Len(queries_list)
        /\ \A i \in 1..Len(results) : results[i].query = queries_list[i]
        /\ missing_topics = NotFoundQueries(results)
        /\ pc = "returned" =>
             /\ Len(report[1].query_results) = Len(queries_list)
             /\ report[1].missing_topics = NotFoundQueries(report[1].query_results)

\* C10 witness: a report in which an answered question is followed by two
\* questions that were not
C10_Witness ==
    /\ engine = "per_question"
    /\ pc = "returned"
    /\ Len(report[1].missing_topics) >= 2
    /\ \E i, j \in 1..Len(results) :
         /\ i < j
         /\ results[i].status = "answered"
         /\ results[j].status = "not_found"

\* the number of query results of the report with status answered
AnsweredCount(rs) == Cardinality({i \in 1..Len(rs) : rs[i].status = "answered"})

\* h hundredths is n / d rounded to two decimals: no hundredth is nearer
IsRounded2(h, n, d) ==
    /\ 2 * (100 * n - h * d) <= d
    /\ 2 * (h * d - 100 * n) <= d

\* C11: in every report of either implementation, answerability_rate is the
\* number of query results with status answered divided by queries_run,
\* rounded to two decimals.
C11_AnswerabilityRate ==
    pc = "returned" =>
        IsRounded2(report[1].overall_scores.answerability_rate,
                   AnsweredCount(report[1].query_results),
                   report[1].queries_run)

\* C11 witness: a report with answered and not answered questions whose rate
\* is no whole number of hundredths before rounding
C11_Witness ==
    /\ pc = "returned"
    /\ AnsweredCount(report[1].query_results) > 0
    /\ AnsweredCount(report[1].query_results) < Len(report[1].query_results)
    /\ (100 * AnsweredCount(report[1].query_results)) % report[1].queries_run /= 0

\* the number of query results whose metrics.citation_ok is true
CitationOkCount(rs) == Cardinality({i \in 1..Len(rs) : rs[i].metrics.citation_ok})

\* C12 as stated: per-question engine.  In every report, metrics.citation_ok
\* of a result is true iff its citations list is non-empty, and
\* citation_coverage is the number of results with metrics.citation_ok true
\* divided by the number of questions, rounded to two decimals.
C12_CitationCoverage ==
    (engine = "per_question" /\ pc = "returned") =>
        /\ \A i \in 1..Len(report[1].query_results) :
             report[1].query_results[i].metrics.citation_ok
                 <=> (report[1].query_results[i].citations /= <<>>)
        /\ IsRounded2(report[1].overall_scores.citation_coverage,
                      CitationOkCount(report[1].query_results),
                      Len(queries_list))

----------------------------------------------------------------------------
(* Further claims about crawl_site, checked under CrawlSpec *)

\* C13 as stated: at no moment of a crawl does the work queue hold the same
\* URL at two positions.
C13_QueueHoldsNoDuplicate ==
    pc = "crawl" =>
        \A i, j \in 1..Len(queue) : i /= j => queue[i] /= queue[j]

\* C14: an iteration whose fetch raises a request error or answers with a
\* status >= 400 appends no page and enqueues no link, leaves the URL in the
\* visited set, leaves the collected pages and the rest of the queue as they
\* were, and leaves the crawl running with no error surfaced; a URL never
\* leaves the visited set afterwards.
C14_FetchFailureIsSkipped ==
    /\ [][ (lastIter'.kind \in {"raise", "status"} /\ fetchLog' /= fetchLog) =>
             /\ fetchLog' = Append(fetchLog, Head(queue))
             /\ Head(queue) \in seen'
             /\ pages' = pages
             /\ enqLog' = enqLog
             /\ queue' = Tail(queue)
             /\ pc' = "crawl"
             /\ outcome' = "running" ]_vars
    /\ [][seen \subseteq seen']_vars

\* C14 witness: a fetch just failed with pages collected before it and queue
\* entries left after it
C14_Witness ==
    /\ pc = "crawl"
    /\ lastIter.kind \in {"raise", "status"}
    /\ lastIter.url \in seen
    /\ lastIter.url \notin PageUrls
    /\ pages /= <<>>
    /\ queue /= <<>>

----------------------------------------------------------------------------
(* Claims about the helpers, checked under FnSpec *)

Returned(f) == call.fn = f /\ call.done

\* C15 as stated: for a page with n anchors and a cap >= 0, _extract_links
\* returns min(cap, n) links, the i-th being the i-th anchor's href joined to
\* the base URL with its fragment removed.
C15_ExtractLinksCap ==
    Returned("_extract_links") =>
        LET anchors == call.args.anchors
            k       == Min(call.args.max_links, Len(anchors))
        IN  /\ Len(call.result) = k
            /\ \A i \in 1..k :
                 call.result[i] = Urldefrag(Urljoin(call.args.base_url, anchors[i]))

\* ceil(a / b) for b > 0
CeilDiv(a, b) == (a + b - 1) \div b

\* C16: for a text of N words and 0 <= overlap < chunk_size, _chunk_text
\* returns no chunk when N = 0 and otherwise
\* max(1, ceil((N - overlap) / (chunk_size - overlap))) chunks; every chunk has
\* at most chunk_size words and every chunk but the last has exactly chunk_size.
C16_ChunkCount ==
    Returned("_chunk_text") =>
        LET N == Len(call.args.text)
            C == call.args.chunk_size
            O == call.args.overlap
            r == call.result
        IN  /\ N = 0 => r = <<>>
            /\ N > 0 => Len(r) = Max(1, CeilDiv(N - O, C - O))
            /\ \A i \in 1..Len(r) : Len(r[i]) <= C
            /\ \A i \in 1..(Len(r) - 1) : Len(r[i]) = C

\* C16 witness: a text cut into at least three chunks with a positive overlap,
\* the last chunk shorter than chunk_size
C16_Witness ==
    /\ Returned("_chunk_text")
    /\ call.args.overlap > 0
    /\ Len(call.result) >= 3
    /\ Len(call.result[Len(call.result)]) < call.args.chunk_size

\* the first chunk followed by every later chunk without its first o words
RECURSIVE Stitch(_, _)
Stitch(r, o) ==
    IF Len(r) <= 1 THEN (IF r = <<>> THEN <<>> ELSE r[1])
    ELSE Stitch(SubSeq(r, 1, Len(r) - 1), o)
           \o SubSeq(r[Len(r)], o + 1, Len(r[Len(r)]))

\* C17: for 0 <= overlap < chunk_size, the i-th chunk starts at word
\* (i - 1) * (chunk_size - overlap) of the text, its first overlap words are the
\* last overlap words of the chunk before it and the two chunks have no other
\* word in common (the words of the text are all different), and the first
\* chunk followed by every later chunk without its first overlap words is the
\* text's word sequence.
C17_ChunksReconstructText ==
    Returned("_chunk_text") =>
        LET text == call.args.text
            C    == call.args.chunk_size
            O    == call.args.overlap
            r    == call.result
        IN  /\ \A i \in 1..Len(r) :
                 /\ r[i] /= <<>>
                 /\ r[i] = SubSeq(text, (i - 1) * (C - O) + 1,
                                  (i - 1) * (C - O) + Len(r[i]))
            /\ \A i \in 2..Len(r) :
                 /\ Len(r[i]) > O
                 /\ SubSeq(r[i], 1, O)
                      = SubSeq(r[i - 1], Len(r[i - 1]) - O + 1, Len(r[i - 1]))
                 /\ Cardinality(Range(r[i]) \cap Range(r[i - 1])) = O
            /\ Stitch(r, O) = text

\* C17 witness: at least three chunks with an overlap of two words or more
C17_Witness ==
    /\ Returned("_chunk_text")
    /\ call.args.overlap >= 2
    /\ Len(call.result) >= 3
    /\ Stitch(call.result, call.args.overlap) = call.args.text

FracEq(a, b) == a.num * b.den = b.num * a.den

\* C18: _select_top_chunks returns min(top_k, len(chunks)) entries, each a
\* chunk of the input with its score, in non-increasing score order; returned
\* entries of equal score keep their input order; no chunk left out scores
\* strictly higher than a returned one.
C18_TopChunksSortedStable ==
    Returned("_select_top_chunks") =>
        LET cs == call.args.chunks
            r  == call.result
            entry(i) == [url |-> cs[i].url, chunk |-> cs[i].chunk,
                         score |-> _score_overlap(call.args.query, cs[i].chunk)]
        IN  /\ Len(r) = Min(call.args.top_k, Len(cs))
            /\ \E f \in [1..Len(r) -> 1..Len(cs)] :
                 /\ \A j \in 1..Len(r) : r[j] = entry(f[j])
                 /\ \A j, k \in 1..Len(r) :
                      j < k =>
                        /\ f[j] /= f[k]
                        /\ ~FracLess(r[j].score, r[k].score)
                        /\ FracEq(r[j].score, r[k].score) => f[j] < f[k]
                 /\ \A i \in 1..Len(cs) :
                      (\A j \in 1..Len(r) : f[j] /= i) =>
                        \A j \in 1..Len(r) : ~FracLess(r[j].score, entry(i).score)

\* C18 witness: three chunks in, two out; the two returned chunks score the
\* same, differ, and a chunk of lower score was left out although it came
\* first
C18_Witness ==
    /\ Returned("_select_top_chunks")
    /\ Len(call.args.chunks) = 3
    /\ Len(call.result) = 2
    /\ FracEq(call.result[1].score, call.result[2].score)
    /\ call.result[1] /= call.result[2]
    /\ FracLess(_score_overlap(call.args.query, call.args.chunks[1].chunk),
                call.result[2].score)

\* the pairs (query token occurrence, chunk token occurrence) of equal tokens
Hits(q_tokens, c_tokens) ==
    { p \in (1..Len(q_tokens)) \X (1..Len(c_tokens)) : q_tokens[p[1]] = c_tokens[p[2]] }

\* C19: _score_overlap(query, chunk) is the sum, over the token occurrences of
\* the query, of the token's number of occurrences in the chunk, divided by
\* the number of query tokens; it is 0 when the chunk has none of the query's
\* tokens and 0 when the query has no token.
C19_ScoreIsMeanOccurrence ==
    Returned("_score_overlap") =>
        LET q_tokens == _tokenize(call.args.query)
            c_tokens == _tokenize(call.args.chunk)
            hits     == Cardinality(Hits(q_tokens, c_tokens))
        IN  /\ call.result.den > 0
            /\ q_tokens /= <<>> =>
                 call.result.num * Len(q_tokens) = hits * call.result.den
            /\ q_tokens = <<>> => call.result.num = 0
            /\ Range(q_tokens) \cap Range(c_tokens) = {} => call.result.num = 0

\* C19 witness: a query that repeats a token, scored on a chunk that repeats
\* it too: the score is above 1
C19_Witness ==
    /\ Returned("_score_overlap")
    /\ \E i, j \in 1..Len(_tokenize(call.args.query)) :
         i /= j /\ _tokenize(call.args.query)[i] = _tokenize(call.args.query)[j]
    /\ call.result.num > call.result.den

\* the numbers n of the markers [n] of a text
Markers(answer) == {MarkerOf(answer[i]) : i \in 1..Len(answer)} \ {-1}

\* C20: _extract_citations returns one entry per source URL that some marker
\* [n] with 1 <= n <= len(sources) refers to, no URL twice, in ascending URL
\* order, each with section "page"; markers [0] and [n] with n > len(sources)
\* add nothing.
C20_CitationsExact ==
    Returned("_extract_citations") =>
        LET sources == call.args.sources
            r       == call.result
            cited   == {sources[n] : n \in Markers(call.args.answer) \cap (1..Len(sources))}
        IN  /\ {r[i].url : i \in 1..Len(r)} = cited
            /\ Len(r) = Cardinality(cited)
            /\ \A i, j \in 1..Len(r) : i < j => UrlLess(r[i].url, r[j].url)
            /\ \A i \in 1..Len(r) : r[i] = [url |-> r[i].url, section |-> "page"]

\* C20 witness: markers [1] and [3] with two different sources give the one
\* citation of the first source
C20_Witness ==
    /\ Returned("_extract_citations")
    /\ Markers(call.args.answer) = {1, 3}
    /\ Len(call.args.sources) = 2
    /\ call.args.sources[1] /= call.args.sources[2]
    /\ call.result = <<[url |-> call.args.sources[1], section |-> "page"]>>

----------------------------------------------------------------------------
(* Further claims about run_answerability_benchmark, checked under Spec *)

\* the word in lower case
LowerOf(w) ==
    CASE w \in {"Not", "NOT"}     -> "not"
      [] w \in {"Found", "FOUND"} -> "found"
      [] OTHER                    -> w

\* the text holds the marker "not found" written in some letter case
HasMarkerAnyCase(text) ==
    \E i \in 1..(Len(text) - 1) :
        /\ LowerOf(text[i]) \in {"not", "cannot"}
        /\ LowerOf(text[i + 1]) \in {"found", "found?", "foundation"}

\* C21: per-question engine.  For a question that passed the gate and got its
\* completion, metrics.answerable is true iff the answer text does not hold
\* "NOT FOUND" in any letter case, and the status is answered iff
\* metrics.answerable is true.
C21_AnswerableIffNoMarker ==
    engine = "per_question" =>
        \A i \in 1..Len(results) :
            svcCalls[i] = 1 =>
                /\ results[i].metrics.answerable <=> ~HasMarkerAnyCase(results[i].answer)
                /\ (results[i].status = "answered") <=> results[i].metrics.answerable
                /\ results[i].status \in {"answered", "not_found"}

\* C21 witness: one run with a completion that says "Not Found" in mixed case,
\* one that says "NOT FOUND", and one without the marker
C21_Witness ==
    /\ engine = "per_question"
    /\ pc = "returned"
    /\ \E i, j, k \in 1..Len(results) :
         /\ svcCalls[i] = 1 /\ svcCalls[j] = 1 /\ svcCalls[k] = 1
         /\ results[i].answer = <<"Not", "Found", "[1]">>
         /\ results[i].status = "not_found"
         /\ results[j].answer = <<"NOT", "FOUND">>
         /\ results[k].status = "answered"

----------------------------------------------------------------------------
(* Claims about the priority-primed crawl_site (single-call engine), checked
   under CrawlSpec *)

\* scheme and host of a URL
OriginOf(u) == <<u[1]>>

\* the crawl has not run an iteration yet
AtCrawlStart == pc = "crawl" /\ lastIter.kind = "none"

\* C22 as stated: the i-th entry of the initial queue is the seed's origin
\* followed by the i-th well-known path, for every seed.
C22_PriorityUrlsFromOrigin ==
    (engine = "single_call" /\ AtCrawlStart) =>
        \A i \in 1..Len(priority_paths) :
            queue[i] = OriginOf(start_url) \o priority_paths[i]

\* C23: single-call engine.  The first dequeues of a crawl are the entries of
\* the initial queue (the priority guesses, then the seed) in their order, so
\* a URL that is in the queue only because a page linked to it is dequeued
\* after all of them; the crawl returns before all of them were dequeued only
\* when max_pages was reached.
C23_PriorityBeforeDiscovered ==
    engine = "single_call" =>
        LET initial == InitialQueue(engine, start_url)
        IN  /\ \A i \in 1..Min(Len(deqLog), Len(initial)) : deqLog[i] = initial[i]
            /\ \A j \in 1..Len(deqLog) :
                 (deqLog[j] \in Range(enqLog) /\ deqLog[j] \notin Range(initial))
                     => j > Len(initial)
            /\ (pc = "crawl_returned" /\ Len(deqLog) < Len(initial))
                 => Len(pages) >= max_pages

\* C23 witness: a link found on the first fetched page, no priority guess and
\* not the seed, was dequeued after the whole initial queue
C23_Witness ==
    /\ engine = "single_call"
    /\ pc = "crawl"
    /\ Len(deqLog) > Len(InitialQueue(engine, start_url))
    /\ deqLog[Len(deqLog)] \in Range(enqLog)
    /\ deqLog[Len(deqLog)] \notin Range(InitialQueue(engine, start_url))
    /\ enqLog[1] = deqLog[Len(deqLog)]
    /\ pages[1].url = deqLog[1]

\* the number of entries of a sequence that lie in a set
CountIn(seq, S) == Cardinality({i \in 1..Len(seq) : seq[i] \in S})

\* C24 as stated: single-call engine.  The priority entry built from the empty
\* path is the seed URL itself, for a seed with or without a trailing slash;
\* the seed page (under the seed URL or under that entry) is fetched at most
\* once, exactly once when the crawl fetched anything, and gives at most one
\* Page.
C24_SeedFetchedOnce ==
    engine = "single_call" =>
        LET first    == InitialQueue(engine, start_url)[1]
            seedUrls == {start_url, first}
        IN  /\ first = start_url
            /\ CountIn(fetchLog, seedUrls) <= 1
            /\ fetchLog /= <<>> => CountIn(fetchLog, seedUrls) = 1
            /\ CountIn([i \in 1..Len(pages) |-> pages[i].url], seedUrls) <= 1

----------------------------------------------------------------------------
(* Claims about the loop of _chunk_text, checked under ChunkSpec *)

\* C25: for 0 <= overlap < chunk_size the call of _chunk_text returns; every
\* loop iteration either ends the call, its window having reached the end of
\* the words, or moves the window start strictly forward; the chunks returned
\* are those of _chunk_text.
C25_ChunkLoopTerminates ==
    /\ <>(call.done)
    /\ [][ \/ call'.start > call.start
           \/ /\ call'.done
              /\ call'.start = call.start
              /\ call'.args.text /= <<>> =>
                   call'.start + Len(call'.result[Len(call'.result)])
                       = Len(call'.args.text) ]_vars
    /\ [](call.done =>
            call.result = _chunk_text(call.args.text, call.args.chunk_size,
                                      call.args.overlap))

\* C25 witness: a call that returned after its window start moved at least
\* twice, with a positive overlap
C25_Witness ==
    /\ pc = "chunk_loop"
    /\ call.done
    /\ call.args.overlap > 0
    /\ Len(call.result) >= 3
    /\ call.start >= 2 * (call.args.chunk_size - call.args.overlap)

----------------------------------------------------------------------------
(* Claims about the context and the single-call results, checked under Spec *)

\* C26 as stated: per-question engine.  For every question the completion
\* service was invoked for, every chunk of the context (the selected top
\* chunks) scores at least 0.2 for that question.
C26_ContextChunksPassGate ==
    (engine = "per_question" /\ pc \in {"queries", "returned", "raised"}) =>
        \A i \in 1..Len(svcCalls) :
            svcCalls[i] = 1 =>
                \A j \in 1..Len(TopChunksOf(queries_list[i])) :
                    5 * TopChunksOf(queries_list[i])[j].score.num
                        >= TopChunksOf(queries_list[i])[j].score.den

\* C27 as stated: single-call engine.  In every report, for every query
\* result: status is answered iff metrics.answerable is true iff citations is
\* non-empty iff the result's query is not in missing_topics.
C27_SingleCallResultConsistent ==
    (engine = "single_call" /\ pc = "returned") =>
        \A i \in 1..Len(report[1].query_results) :
            LET qr       == report[1].query_results[i]
                answered == qr.status = "answered"
            IN  /\ answered <=> qr.metrics.answerable
                /\ answered <=> (qr.citations /= <<>>)
                /\ answered <=> (qr.query \notin Range(report[1].missing_topics))

----------------------------------------------------------------------------
(* Claims about the audit pipeline and the benchmark endpoints, checked
   under ApiSpec *)

TerminalStatus == {"completed", "failed"}

\* session s exists and is completed or failed
IsTerminal(s) ==
    IF s \in Sessions THEN audit_sessions[s].status \in TerminalStatus ELSE FALSE

\* the status changes an audit session may make
StatusMoves ==
    {<<"pending", "running">>, <<"running", "completed">>, <<"running", "failed">>}

\* C28: over any run of run_full_audit (the tool writes its report, fails,
\* times out, or something raises) the progress of a session is one of 0, 10,
\* 50, 60, 90, 100 and never decreases; its status moves only pending ->
\* running -> completed or failed; a terminal status never changes again; and
\* every session eventually reaches completed or failed.
C28_AuditProgressAndStatus ==
    /\ [](\A s \in Sessions :
            audit_sessions[s].progress \in {0, 10, 50, 60, 90, 100})
    /\ [][\A s \in Sessions :
            /\ audit_sessions'[s].progress >= audit_sessions[s].progress
            /\ \/ audit_sessions'[s].status = audit_sessions[s].status
               \/ <<audit_sessions[s].status, audit_sessions'[s].status>>
                      \in StatusMoves
            /\ audit_sessions[s].status \in TerminalStatus
                 => audit_sessions'[s].status = audit_sessions[s].status]_vars
    /\ \A s \in 1..MaxSessions :
         [](s \in Sessions => <>IsTerminal(s))

\* one session ran to completed at 100 and another failed when the output
\* directory could not be made, at 50
C28_Witness ==
    /\ \E s \in Sessions :
         /\ audit_sessions[s].status = "completed"
         /\ audit_sessions[s].progress = 100
    /\ \E s \in Sessions :
         /\ audit_sessions[s].status = "failed"
         /\ audit_sessions[s].progress = 50

\* C29: GET /api/benchmark/{session_id} reports running whenever a
\* run_benchmark_task of the session has not finished, and reports completed
\* or failed only when none is in flight, also when two runs overlap.
C29_RunningWhileInFlight ==
    \A s \in Sessions :
        LET reported == BenchmarkStatusOf(audit_sessions[s])
        IN  /\ bench_inflight[s] > 0 => reported = "running"
            /\ reported \in {"completed", "failed"} => bench_inflight[s] = 0

====
